---- MODULE Spec2Model ----
(***************************************************************************)
(* dd::Fraction<T> (src/Fraction.hpp) and its driver (src/main.cpp).       *)
(*                                                                         *)
(* A Fraction object is the record [num, den] of its two members m_num and *)
(* m_den.  T is a signed two's-complement integer of `bits` bits; every    *)
(* product, sum and negation the code computes is reduced to that width.   *)
(* While a member function runs, the receiver is carried as the record     *)
(* [num, den, ovf, trap]: ovf records that some exact intermediate value   *)
(* left the range of T, trap that the code divided the most negative value *)
(* of T by -1 (undefined behaviour: the quotient wraps or the program is   *)
(* stopped by the hardware).                                               *)
(***************************************************************************)
EXTENDS Integers, Sequences, FiniteSets, TLC

VARIABLES bits, f1, f2, f, op, self, ovf, pc, argn, argd, cmp, test, line, out

vars == <<bits, f1, f2, f, op, self, ovf, pc, argn, argd, cmp, test, line, out>>

\* Width of T in the bounded specifications.
W == 4
\* Largest magnitude of the constructor arguments the client of Spec passes.
MaxArg == 2
\* Width of T in the driver: Fraction<int32_t>.
IntBits == 32

---------------------------------------------------------------------------
(* The integer type T *)

TMax == (2^(bits - 2) - 1) + 2^(bits - 2)
TMin == -TMax - 1
T == TMin..TMax
InT(x) == TMin <= x /\ x <= TMax
Wrap(x) == IF InT(x) THEN x ELSE ((x - TMin) % (2 * (TMax + 1))) + TMin

Abs(x) == IF x < 0 THEN -x ELSE x

\* C++ integer division truncates toward zero; % takes the dividend's sign.
Quot(x, y) ==
    LET q == Abs(x) \div Abs(y) IN IF (x < 0) # (y < 0) THEN -q ELSE q
Rem(x, y) == x - y * Quot(x, y)
DivTrap(x, y) == x = TMin /\ y = -1

---------------------------------------------------------------------------
(* Private helpers of the class *)

\* PGCD with the loop run at most once ("if" written for "while")
PGCDOnce(x, y) ==
    LET r == Rem(x, y) IN IF r # 0 THEN r ELSE y

RECURSIVE PGCD(_, _)
PGCD(x, y) ==
    LET r == Rem(x, y) IN IF r # 0 THEN PGCD(y, r) ELSE y

RECURSIVE PGCDTrap(_, _)
PGCDTrap(x, y) ==
    LET r == Rem(x, y) IN DivTrap(x, y) \/ (r # 0 /\ PGCDTrap(y, r))

\* reduction that forgets the divisor of a negative numerator
reductionNoNegGcd(m) ==
    IF m.den # 0
    THEN LET s == IF m.den < 0
                  THEN [m EXCEPT !.num = Wrap(m.num * (-1)),
                                 !.den = Wrap(m.den * (-1)),
                                 !.ovf = m.ovf \/ ~InT(m.num * (-1))
                                               \/ ~InT(m.den * (-1))]
                  ELSE m
             div == IF s.num >= 0 THEN PGCD(s.num, s.den) ELSE 1
         IN [num  |-> Wrap(Quot(s.num, div)),
             den  |-> Wrap(Quot(s.den, div)),
             ovf  |-> s.ovf,
             trap |-> s.trap \/ (s.num >= 0 /\ PGCDTrap(s.num, s.den))
                             \/ DivTrap(s.num, div) \/ DivTrap(s.den, div)]
    ELSE m

\* reduction that leaves a negative denominator where it is
reductionNoSign(m) ==
    IF m.den # 0
    THEN LET x == IF m.num >= 0 THEN m.num ELSE Wrap((-1) * m.num)
             div == PGCD(x, m.den)
         IN [num  |-> Wrap(Quot(m.num, div)),
             den  |-> Wrap(Quot(m.den, div)),
             ovf  |-> m.ovf \/ (m.num < 0 /\ ~InT((-1) * m.num)),
             trap |-> m.trap \/ PGCDTrap(x, m.den)
                             \/ DivTrap(m.num, div) \/ DivTrap(m.den, div)]
    ELSE m

reduction(m) ==
    IF m.den # 0
    THEN LET s == IF m.den < 0
                  THEN [m EXCEPT !.num = Wrap(m.num * (-1)),
                                 !.den = Wrap(m.den * (-1)),
                                 !.ovf = m.ovf \/ ~InT(m.num * (-1))
                                               \/ ~InT(m.den * (-1))]
                  ELSE m
             x == IF s.num >= 0 THEN s.num ELSE Wrap((-1) * s.num)
             div == PGCD(x, s.den)
         IN [num  |-> Wrap(Quot(s.num, div)),
             den  |-> Wrap(Quot(s.den, div)),
             ovf  |-> s.ovf \/ (s.num < 0 /\ ~InT((-1) * s.num)),
             trap |-> s.trap \/ PGCDTrap(x, s.den)
                             \/ DivTrap(s.num, div) \/ DivTrap(s.den, div)]
    ELSE m

---------------------------------------------------------------------------
(* Constructors *)

Start(num, den) == [num |-> num, den |-> den, ovf |-> FALSE, trap |-> FALSE]
Val(m) == [num |-> m.num, den |-> m.den]

Fraction1(num) == Start(num, 1)

\* constructor that forgets to negate the numerator
Fraction2KeepNum(num, den) ==
    LET m0 == Start(num, 0)
        m1 == IF den > 0
              THEN [m0 EXCEPT !.den = den]
              ELSE [m0 EXCEPT !.den = Wrap(-den), !.ovf = ~InT(-den)]
    IN reduction(m1)

Fraction2(num, den) ==
    LET m0 == Start(num, 0)
        m1 == IF den > 0
              THEN [m0 EXCEPT !.den = den]
              ELSE [m0 EXCEPT !.den = Wrap(-den),
                              !.num = Wrap(m0.num * (-1)),
                              !.ovf = ~InT(-den) \/ ~InT(m0.num * (-1))]
    IN reduction(m1)

---------------------------------------------------------------------------
(* Classification *)

isFinite(x) == x.den # 0
isInf(x) == x.den = 0 /\ x.num # 0
isNan(x) == x.den = 0 /\ x.num = 0

---------------------------------------------------------------------------
(* Self-mutating operators.  m is the receiver object while the operator   *)
(* runs, g the object the parameter f refers to.  alias says that the      *)
(* parameter refers to the receiver itself, so that every read of f.m_num  *)
(* or f.m_den sees what the receiver holds at that statement.              *)

Ref(m, g, alias) == IF alias THEN m ELSE g

\* addition of the numerators and of the denominators
AddAssignNaive(m, g, alias) ==
    LET o1 == Ref(m, g, alias)
        m1 == [m EXCEPT !.num = Wrap(m.num + o1.num),
                        !.ovf = m.ovf \/ ~InT(m.num + o1.num)]
        o2 == Ref(m1, g, alias)
        m2 == [m1 EXCEPT !.den = Wrap(m1.den + o2.den),
                         !.ovf = m1.ovf \/ ~InT(m1.den + o2.den)]
    IN reduction(m2)

AddAssign(m, g, alias) ==
    LET o1 == Ref(m, g, alias)
        p1 == m.num * o1.den
        p2 == o1.num * m.den
        m1 == [m EXCEPT !.num = Wrap(Wrap(p1) + Wrap(p2)),
                        !.ovf = m.ovf \/ ~InT(p1) \/ ~InT(p2)
                                      \/ ~InT(Wrap(p1) + Wrap(p2))]
        o2 == Ref(m1, g, alias)
        p3 == m1.den * o2.den
        m2 == [m1 EXCEPT !.den = Wrap(p3), !.ovf = m1.ovf \/ ~InT(p3)]
    IN reduction(m2)

\* subtraction with the two cross-products exchanged
SubAssignSwapped(m, g, alias) ==
    LET o1 == Ref(m, g, alias)
        p1 == m.num * o1.den
        p2 == o1.num * m.den
        m1 == [m EXCEPT !.num = Wrap(Wrap(p2) - Wrap(p1)),
                        !.ovf = m.ovf \/ ~InT(p1) \/ ~InT(p2)
                                      \/ ~InT(Wrap(p2) - Wrap(p1))]
        o2 == Ref(m1, g, alias)
        p3 == m1.den * o2.den
        m2 == [m1 EXCEPT !.den = Wrap(p3), !.ovf = m1.ovf \/ ~InT(p3)]
    IN reduction(m2)

SubAssign(m, g, alias) ==
    LET o1 == Ref(m, g, alias)
        p1 == m.num * o1.den
        p2 == o1.num * m.den
        m1 == [m EXCEPT !.num = Wrap(Wrap(p1) - Wrap(p2)),
                        !.ovf = m.ovf \/ ~InT(p1) \/ ~InT(p2)
                                      \/ ~InT(Wrap(p1) - Wrap(p2))]
        o2 == Ref(m1, g, alias)
        p3 == m1.den * o2.den
        m2 == [m1 EXCEPT !.den = Wrap(p3), !.ovf = m1.ovf \/ ~InT(p3)]
    IN reduction(m2)

MulAssign(m, g, alias) ==
    LET o1 == Ref(m, g, alias)
        p1 == m.num * o1.num
        m1 == [m EXCEPT !.num = Wrap(p1), !.ovf = m.ovf \/ ~InT(p1)]
        o2 == Ref(m1, g, alias)
        p2 == m1.den * o2.den
        m2 == [m1 EXCEPT !.den = Wrap(p2), !.ovf = m1.ovf \/ ~InT(p2)]
    IN reduction(m2)

\* division written as a copy of the multiplication
DivAssignAsMul(m, g, alias) == MulAssign(m, g, alias)

DivAssign(m, g, alias) ==
    LET o1 == Ref(m, g, alias)
        p1 == m.num * o1.den
        m1 == [m EXCEPT !.num = Wrap(p1), !.ovf = m.ovf \/ ~InT(p1)]
        o2 == Ref(m1, g, alias)
        p2 == m1.den * o2.num
        m2 == [m1 EXCEPT !.den = Wrap(p2), !.ovf = m1.ovf \/ ~InT(p2)]
    IN reduction(m2)

---------------------------------------------------------------------------
(* Binary operators: the left operand is copied into a local f, which is   *)
(* then the receiver of the self-mutating operator; the right operand is   *)
(* never that local.                                                       *)

Copy(x) == Start(x.num, x.den)

OpAdd(x, y) == AddAssign(Copy(x), y, FALSE)
OpSub(x, y) == SubAssign(Copy(x), y, FALSE)
OpMul(x, y) == MulAssign(Copy(x), y, FALSE)
OpDiv(x, y) == DivAssign(Copy(x), y, FALSE)

---------------------------------------------------------------------------
(* Comparisons *)

OpEq(x, y) == (x.num = y.num) /\ (x.den = y.den)
\* ">=" written for ">"
OpGtOrEqual(x, y) == Wrap(x.num * y.den) >= Wrap(y.num * x.den)
OpGt(x, y) == Wrap(x.num * y.den) > Wrap(y.num * x.den)
OpNe(x, y) == ~OpEq(x, y)
OpGe(x, y) == ~OpGt(y, x)
OpLt(x, y) == OpGt(y, x)
OpLe(x, y) == ~OpGt(x, y)

Compare(x, y) ==
    [lt |-> OpLt(x, y), le |-> OpLe(x, y), gt |-> OpGt(x, y),
     ge |-> OpGe(x, y), eq |-> OpEq(x, y), ne |-> OpNe(x, y)]

\* operator<<
Text(x) ==
    IF isNan(x) THEN [s |-> "NaN", num |-> 0, den |-> 0]
    ELSE IF isInf(x) THEN [s |-> "Inf", num |-> 0, den |-> 0]
    ELSE [s |-> "/", num |-> x.num, den |-> x.den]

---------------------------------------------------------------------------
(* A client of the class: it owns a receiver f and an operand f2, builds   *)
(* operands with the two constructors, applies the arithmetic operators to *)
(* the receiver (the right operand being f2 or the receiver itself) and    *)
(* compares the two.  f1 keeps the value the receiver had when the last    *)
(* operation started (the left operand of the binary operators), op and    *)
(* self name that operation, ovf tells whether the last operation          *)
(* computed a value outside T.                                             *)

NoCmp == [lt |-> FALSE, le |-> FALSE, gt |-> FALSE,
          ge |-> FALSE, eq |-> FALSE, ne |-> FALSE]

Zero == Val(Fraction1(0))

Args == (-MaxArg..MaxArg) \cup {TMin, TMax}

\* Signed overflow is undefined behaviour: the wrapped result of the
\* operation that overflowed is kept and can still be compared, and the
\* client starts no further construction or arithmetic.
Running == pc = "run" /\ ~ovf

InitObjects ==
    /\ f = Zero /\ f1 = Zero /\ f2 = Zero
    /\ op = "init" /\ self = FALSE /\ ovf = FALSE
    /\ argn = 0 /\ argd = 1 /\ cmp = NoCmp
    /\ out = << >>

Init == bits = W /\ pc = "run" /\ test = 0 /\ line = 0 /\ InitObjects

\* The hardware stops the program at the division of TMin by -1.
Trapped(m, name) ==
    /\ m.trap
    /\ pc' = "trap"
    /\ op' = name
    /\ UNCHANGED <<bits, f1, f2, f, self, ovf, argn, argd, cmp, test, line, out>>

\* f2 = Fraction(n)
Built(m, name, n, d) ==
    /\ f2' = Val(m)
    /\ ovf' = (ovf \/ m.ovf)
    /\ f1' = f
    /\ op' = name /\ self' = FALSE
    /\ argn' = n /\ argd' = d /\ cmp' = NoCmp
    /\ UNCHANGED <<bits, f, pc, test, line, out>>

Construct1(S) ==
    /\ Running
    /\ \E n \in S : Built(Fraction1(n), "ctor1", n, 1)

Construct2(S) ==
    /\ Running
    /\ \E n \in S, d \in S :
         LET m == Fraction2(n, d)
         IN Built(m, "ctor2", n, d) \/ Trapped(m, "ctor2")

\* the receiver holds the result m of the operation called name
Stored(m, name, alias) ==
    /\ f' = Val(m)
    /\ ovf' = (ovf \/ m.ovf)
    /\ f1' = f
    /\ op' = name /\ self' = alias
    /\ cmp' = NoCmp /\ argn' = 0 /\ argd' = 1
    /\ UNCHANGED <<bits, f2, pc, test, line, out>>

Done(m, name, alias) == Stored(m, name, alias) \/ Trapped(m, name)

\* f += f2, f += f
CallAddAssign ==
    /\ Running
    /\ \E alias \in BOOLEAN : Done(AddAssign(Copy(f), f2, alias), "+=", alias)

CallSubAssign ==
    /\ Running
    /\ \E alias \in BOOLEAN : Done(SubAssign(Copy(f), f2, alias), "-=", alias)

CallMulAssign ==
    /\ Running
    /\ \E alias \in BOOLEAN : Done(MulAssign(Copy(f), f2, alias), "*=", alias)

CallDivAssign ==
    /\ Running
    /\ \E alias \in BOOLEAN : Done(DivAssign(Copy(f), f2, alias), "/=", alias)

\* f = f + f2, f = f + f
CallOpAdd ==
    /\ Running
    /\ \E alias \in BOOLEAN : Done(OpAdd(f, Ref(f, f2, alias)), "+", alias)

CallOpSub ==
    /\ Running
    /\ \E alias \in BOOLEAN : Done(OpSub(f, Ref(f, f2, alias)), "-", alias)

CallOpMul ==
    /\ Running
    /\ \E alias \in BOOLEAN : Done(OpMul(f, Ref(f, f2, alias)), "*", alias)

CallOpDiv ==
    /\ Running
    /\ \E alias \in BOOLEAN : Done(OpDiv(f, Ref(f, f2, alias)), "/", alias)

\* f < f2, f <= f2, f > f2, f >= f2, f == f2, f != f2
CallCompare ==
    /\ pc = "run"
    /\ cmp' = Compare(f, f2)
    /\ f1' = f
    /\ op' = "cmp" /\ self' = FALSE /\ argn' = 0 /\ argd' = 1
    /\ UNCHANGED <<bits, f2, f, ovf, pc, test, line, out>>

Next ==
    \/ Construct1(Args)
    \/ Construct2(Args)
    \/ CallAddAssign
    \/ CallSubAssign
    \/ CallMulAssign
    \/ CallDivAssign
    \/ CallOpAdd
    \/ CallOpSub
    \/ CallOpMul
    \/ CallOpDiv
    \/ CallCompare

Spec == Init /\ [][Next]_vars

(* Construction alone, with every value of T as an argument. *)
NextCtor == Construct1(T) \/ Construct2(T)

SpecCtor == Init /\ [][NextCtor]_vars

---------------------------------------------------------------------------
(* The driver: main() runs five tests; each builds two fractions and calls *)
(* test01 on them.  line is the line of main.cpp about to be executed,     *)
(* test the number of the running test, out what was written to std::cout. *)

NumTests == 5
TitleLine == <<32, 36, 40, 44, 48>>
ExitLine == 53
LeftArgs == << <<100, 150>>, <<30, 15>>, <<-3, 33>>, <<0, 33>>, <<1, 0>> >>
RightArgs == << <<2, 5>>, <<242, -10>>, <<7, -21>>, <<1>>, << >> >>

Construct(args) ==
    IF Len(args) = 2 THEN Fraction2(args[1], args[2])
    ELSE IF Len(args) = 1 THEN Fraction1(args[1])
    ELSE Fraction1(0)

Str(t) == [s |-> t, num |-> 0, den |-> 0]

InitMain ==
    /\ bits = IntBits /\ pc = "main" /\ test = 1 /\ line = TitleLine[1]
    /\ InitObjects

\* std::cout << "Test n: ..." << std::endl;
MainTitle ==
    /\ pc = "main" /\ line = TitleLine[test]
    /\ out' = out \o <<Str("Test"), Str("endl")>>
    /\ line' = line + 1
    /\ UNCHANGED <<bits, f1, f2, f, op, self, ovf, pc, argn, argd, cmp, test>>

\* Fraction<int32_t> f1 {..};
MainLeft ==
    /\ pc = "main" /\ line = TitleLine[test] + 1
    /\ LET m == Construct(LeftArgs[test])
       IN f1' = Val(m) /\ ovf' = (ovf \/ m.ovf)
    /\ line' = line + 1
    /\ UNCHANGED <<bits, f2, f, op, self, pc, argn, argd, cmp, test, out>>

\* Fraction<int32_t> f2 {..};
MainRight ==
    /\ pc = "main" /\ line = TitleLine[test] + 2
    /\ LET m == Construct(RightArgs[test])
       IN f2' = Val(m) /\ ovf' = (ovf \/ m.ovf)
    /\ line' = line + 1
    /\ UNCHANGED <<bits, f1, f, op, self, pc, argn, argd, cmp, test, out>>

\* test01(f1,f2);
MainCall ==
    /\ pc = "main" /\ line = TitleLine[test] + 3
    /\ pc' = "test01" /\ line' = 9
    /\ UNCHANGED <<bits, f1, f2, f, op, self, ovf, argn, argd, cmp, test, out>>

\* Fraction<int32_t> f {0,1};
Test01Local ==
    /\ pc = "test01" /\ line = 9
    /\ LET m == Fraction2(0, 1)
       IN f' = Val(m) /\ ovf' = (ovf \/ m.ovf)
    /\ op' = "init" /\ cmp' = NoCmp
    /\ line' = line + 1
    /\ UNCHANGED <<bits, f1, f2, self, pc, argn, argd, test, out>>

OpSign == [l \in {10, 13, 16, 19} |->
             IF l = 10 THEN "+" ELSE IF l = 13 THEN "-"
             ELSE IF l = 16 THEN "*" ELSE "/"]

\* std::cout << f1 << " + " << f2 << " = ";
Test01PrintOperands ==
    /\ pc = "test01" /\ line \in DOMAIN OpSign
    /\ out' = out \o <<Text(f1), Str(OpSign[line]), Text(f2), Str("=")>>
    /\ line' = line + 1
    /\ UNCHANGED <<bits, f1, f2, f, op, self, ovf, pc, argn, argd, cmp, test>>

Assigned(m, name) ==
    /\ f' = Val(m) /\ ovf' = (ovf \/ m.ovf)
    /\ op' = name
    /\ line' = line + 1
    /\ UNCHANGED <<bits, f1, f2, self, pc, argn, argd, cmp, test, out>>

\* f=f1+f2;
Test01Add == pc = "test01" /\ line = 11 /\ Assigned(OpAdd(f1, f2), "+")

\* f=f1-f2;
Test01Sub == pc = "test01" /\ line = 14 /\ Assigned(OpSub(f1, f2), "-")

\* f=f1*f2;
Test01Mul == pc = "test01" /\ line = 17 /\ Assigned(OpMul(f1, f2), "*")

\* f=f1/f2;
Test01Div == pc = "test01" /\ line = 20 /\ Assigned(OpDiv(f1, f2), "/")

\* std::cout << f << std::endl;
Test01PrintResult ==
    /\ pc = "test01" /\ line \in {12, 15, 18, 21}
    /\ out' = out \o <<Text(f), Str("endl")>>
    /\ line' = line + 1
    /\ UNCHANGED <<bits, f1, f2, f, op, self, ovf, pc, argn, argd, cmp, test>>

\* if (f1 < f2) std::cout << f1 << " < " << f2 << std::endl;  and the like
Tested(b, sign) ==
    /\ out' = IF b THEN out \o <<Text(f1), Str(sign), Text(f2), Str("endl")>>
              ELSE out
    /\ UNCHANGED <<bits, f1, f2, f, self, ovf, argn, argd>>

Test01Lt ==
    /\ pc = "test01" /\ line = 22
    /\ Tested(OpLt(f1, f2), "<") /\ cmp' = [cmp EXCEPT !.lt = OpLt(f1, f2)]
    /\ op' = "cmp" /\ line' = line + 1 /\ UNCHANGED <<pc, test>>

Test01Le ==
    /\ pc = "test01" /\ line = 23
    /\ Tested(OpLe(f1, f2), "<=") /\ cmp' = [cmp EXCEPT !.le = OpLe(f1, f2)]
    /\ op' = "cmp" /\ line' = line + 1 /\ UNCHANGED <<pc, test>>

Test01Gt ==
    /\ pc = "test01" /\ line = 24
    /\ Tested(OpGt(f1, f2), ">") /\ cmp' = [cmp EXCEPT !.gt = OpGt(f1, f2)]
    /\ op' = "cmp" /\ line' = line + 1 /\ UNCHANGED <<pc, test>>

Test01Ge ==
    /\ pc = "test01" /\ line = 25
    /\ Tested(OpGe(f1, f2), ">=") /\ cmp' = [cmp EXCEPT !.ge = OpGe(f1, f2)]
    /\ op' = "cmp" /\ line' = line + 1 /\ UNCHANGED <<pc, test>>

Test01Eq ==
    /\ pc = "test01" /\ line = 26
    /\ Tested(OpEq(f1, f2), "==") /\ cmp' = [cmp EXCEPT !.eq = OpEq(f1, f2)]
    /\ op' = "cmp" /\ line' = line + 1 /\ UNCHANGED <<pc, test>>

\* the last statement of test01: control returns to main
Test01Ne ==
    /\ pc = "test01" /\ line = 27
    /\ Tested(OpNe(f1, f2), "!=") /\ cmp' = [cmp EXCEPT !.ne = OpNe(f1, f2)]
    /\ op' = "cmp" /\ pc' = "main"
    /\ IF test < NumTests
       THEN test' = test + 1 /\ line' = TitleLine[test + 1]
       ELSE test' = test /\ line' = ExitLine

\* return 0;
MainReturn ==
    /\ pc = "main" /\ line = ExitLine
    /\ pc' = "exit"
    /\ UNCHANGED <<bits, f1, f2, f, op, self, ovf, argn, argd, cmp, test, line, out>>

NextMain ==
    \/ MainTitle
    \/ MainLeft
    \/ MainRight
    \/ MainCall
    \/ Test01Local
    \/ Test01PrintOperands
    \/ Test01Add
    \/ Test01Sub
    \/ Test01Mul
    \/ Test01Div
    \/ Test01PrintResult
    \/ Test01Lt
    \/ Test01Le
    \/ Test01Gt
    \/ Test01Ge
    \/ Test01Eq
    \/ Test01Ne
    \/ MainReturn

SpecMain == InitMain /\ [][NextMain]_vars

---------------------------------------------------------------------------
(* Vocabulary of the properties: exact integer arithmetic, no wrapping. *)

AssignOps == {"+=", "-=", "*=", "/="}
BinaryOps == {"+", "-", "*", "/"}

\* n and d have no common divisor other than 1 (d > 0)
Coprime(n, d) == \A k \in 2..d : ~(Abs(n) % k = 0 /\ d % k = 0)

\* the canonical form of section 3 of the specification
Canonical(x) == x.den >= 0 /\ (x.den > 0 => Coprime(x.num, x.den))
FiniteCanonical(x) == x.den > 0 /\ Coprime(x.num, x.den)

Sign(n) == IF n > 0 THEN 1 ELSE IF n < 0 THEN -1 ELSE 0

\* x and y denote the same value
SameValue(x, y) ==
    IF isFinite(x) /\ isFinite(y) THEN x.num * y.den = y.num * x.den
    ELSE IF isInf(x) /\ isInf(y) THEN Sign(x.num) = Sign(y.num)
    ELSE isNan(x) /\ isNan(y)

\* the right operand of the last arithmetic operation
Right == IF self THEN f1 ELSE f2

---------------------------------------------------------------------------
(* C1 - canonical-form invariant.  As long as no product, sum or negation  *)
(* has left the range of T, the receiver and the operand have den >= 0     *)
(* and, when den > 0, gcd(|num|, den) = 1; zero is stored as (0, 1).       *)

C1_CanonicalForm ==
    (pc = "run" /\ ~ovf) =>
        /\ Canonical(f) /\ Canonical(f2)
        /\ (f.num = 0 /\ f.den > 0 => f.den = 1)
        /\ (f2.num = 0 /\ f2.den > 0 => f2.den = 1)

\* an addition whose cross-multiplied pair had to be reduced
C1_Witness ==
    /\ op = "+=" /\ ~self /\ ~ovf /\ pc = "run"
    /\ f.den > 0 /\ f.num # 0
    /\ f1.den * f2.den > f.den

---------------------------------------------------------------------------
(* C2 - the binary operators return the canonical representative of the    *)
(* exact result.                                                           *)

\* the last operation was a binary operator on finite canonical operands
C2_Case ==
    /\ pc = "run" /\ op \in BinaryOps
    /\ FiniteCanonical(f1) /\ FiniteCanonical(Right)
    /\ (op = "/" => Right.num # 0)

\* the products of the operator's formula fit in T
C2_CrossProductsFit ==
    IF op \in {"+", "-"}
    THEN InT(f1.num * Right.den) /\ InT(Right.num * f1.den)
         /\ InT(f1.den * Right.den)
    ELSE IF op = "*"
    THEN InT(f1.num * Right.num) /\ InT(f1.den * Right.den)
    ELSE InT(f1.num * Right.den) /\ InT(f1.den * Right.num)

\* the stored result is the reduced form of the exact result
C2_Exact ==
    /\ FiniteCanonical(f)
    /\ op = "+" => f.num * (f1.den * Right.den)
                     = (f1.num * Right.den + Right.num * f1.den) * f.den
    /\ op = "-" => f.num * (f1.den * Right.den)
                     = (f1.num * Right.den - Right.num * f1.den) * f.den
    /\ op = "*" => f.num * (f1.den * Right.den)
                     = (f1.num * Right.num) * f.den
    /\ op = "/" => f.num * (f1.den * Right.num)
                     = (f1.num * Right.den) * f.den

\* C2 as claimed: whenever the cross-products fit in T, a+b, a-b, a*b and
\* a/b (b non-zero) are the canonical representative of the exact result.
C2_Original == (C2_Case /\ C2_CrossProductsFit) => C2_Exact

\* C2 as amended: whenever no intermediate value of the operation (the
\* cross-products, their sum or difference, the negations of the reduction)
\* leaves T, the result is the canonical representative of the exact result.
C2_ExactResult == (C2_Case /\ ~ovf) => C2_Exact

\* a division by a negative fraction whose quotient had to be reduced
C2_Witness ==
    /\ C2_Case /\ ~ovf /\ op = "/" /\ ~self
    /\ f2.num < 0 /\ f1.num # 0
    /\ f.den < Abs(f1.den * f2.num)

---------------------------------------------------------------------------
(* C3 - division by a fraction whose numerator is 0. *)

\* the last operation divided the receiver by something
C3_Divided == pc = "run" /\ op \in {"/", "/="} /\ ~self

\* denominator 0; infinite for a non-zero left numerator, else not-a-number
C3_NonFinite ==
    /\ f.den = 0
    /\ (f1.num # 0 => isInf(f))
    /\ (f1.num = 0 => isNan(f))

\* C3 as claimed: for every a and every z with numerator 0, whatever z's
\* denominator, a / z has denominator 0 and is infinite when a's numerator
\* is non-zero, not-a-number when it is zero.
C3_Original == (C3_Divided /\ f2.num = 0) => C3_NonFinite

\* C3 as amended: the same for every z with numerator 0 and a non-zero
\* denominator (the finite zero).
C3_DivisionByZero == (C3_Divided /\ f2.num = 0 /\ f2.den # 0) => C3_NonFinite

\* a finite non-zero fraction divided by zero is infinite
C3_Witness ==
    /\ C3_Divided /\ f2.num = 0 /\ f2.den # 0
    /\ isFinite(f1) /\ f1.num # 0 /\ f1.den > 1
    /\ isInf(f)

---------------------------------------------------------------------------
(* C4 - structural equality against equality of the denoted values. *)

\* the last operation compared two fractions built without overflow
C4_Compared == pc = "run" /\ op = "cmp" /\ ~ovf

\* C4 as claimed: f == f2 exactly when they denote the same value (every
\* value, each non-finite class included, has one stored representative).
C4_Original == C4_Compared => (cmp.eq <=> SameValue(f, f2))

\* C4 as amended: f == f2 implies the same value, and the converse holds
\* unless both are infinite (an infinity keeps the numerator it was given).
C4_Equality ==
    C4_Compared =>
        /\ cmp.eq => SameValue(f, f2)
        /\ (SameValue(f, f2) /\ ~(isInf(f) /\ isInf(f2))) => cmp.eq

\* a computed fraction compared equal to a constructed one
C4_Witness ==
    /\ C4_Compared /\ cmp.eq
    /\ isFinite(f) /\ f.den > 1 /\ f.num < 0

---------------------------------------------------------------------------
(* C5 - the two-argument constructor on every pair of values of T. *)

\* Fraction(argn, argd) has returned, argd # 0
C5_Constructed == pc = "run" /\ op = "ctor2" /\ argd # 0

\* canonical, and the same rational as argn/argd
C5_Reduced ==
    /\ f2.den > 0
    /\ Coprime(f2.num, f2.den)
    /\ f2.num * argd = argn * f2.den

\* C5 as claimed: for every (num, den) of T with den # 0, the most negative
\* value of T included, the stored pair is canonical and has the same value.
C5_Original == C5_Constructed => C5_Reduced

\* C5 as amended: the same for every (num, den) with den # 0 in which
\* neither argument is the most negative value of T.
C5_Construction ==
    (C5_Constructed /\ argn # TMin /\ argd # TMin) => C5_Reduced

\* a negative denominator and a common factor: both steps of the
\* canonicalization acted
C5_Witness ==
    /\ C5_Constructed /\ argn # TMin /\ argd # TMin
    /\ argd < 0 /\ argn > 0
    /\ f2.den < -argd /\ f2.den > 1 /\ f2.num < 0

---------------------------------------------------------------------------
(* C6 - constructing from an already-canonical pair stores that pair:      *)
(* for a reduced (n, d) with d > 0 and for every non-finite encoding       *)
(* (n, 0), Fraction(n, d) stores exactly (n, d); with denominator 0 the    *)
(* supplied numerator, sign included, is stored unchanged.                 *)

C6_CanonicalArgs == argd = 0 \/ (argd > 0 /\ Coprime(argn, argd))

C6_Idempotent ==
    (pc = "run" /\ op = "ctor2" /\ C6_CanonicalArgs) =>
        f2 = [num |-> argn, den |-> argd]

---------------------------------------------------------------------------
(* C7 - ordering trichotomy on finite fractions. *)

\* two finite fractions were compared and the cross-products fit in T
C7_Compared ==
    /\ pc = "run" /\ op = "cmp"
    /\ isFinite(f) /\ isFinite(f2)
    /\ InT(f.num * f2.den) /\ InT(f2.num * f.den)

\* exactly one of <, ==, > and <= is the negation of >
C7_Trichotomy ==
    /\ cmp.lt \/ cmp.eq \/ cmp.gt
    /\ ~(cmp.lt /\ cmp.eq) /\ ~(cmp.lt /\ cmp.gt) /\ ~(cmp.eq /\ cmp.gt)
    /\ cmp.le <=> ~cmp.gt

\* C7 as claimed: for all finite f, f2 with cross-products in range.
C7_Original == C7_Compared => C7_Trichotomy

\* C7 as amended: for all finite f, f2 in canonical form (positive
\* denominator, reduced) with cross-products in range.
C7_Ordering ==
    (C7_Compared /\ FiniteCanonical(f) /\ FiniteCanonical(f2)) => C7_Trichotomy

\* two distinct values with different denominators, the smaller one first
C7_Witness ==
    /\ C7_Compared /\ FiniteCanonical(f) /\ FiniteCanonical(f2)
    /\ f.den > 1 /\ f2.den > 1 /\ f.den # f2.den
    /\ cmp.lt /\ ~cmp.eq /\ ~cmp.gt

---------------------------------------------------------------------------
(* C9 - the self-mutating operators agree with the binary operators when   *)
(* the right operand is the receiver itself: after x op= x the receiver    *)
(* holds what x op x returns on the old x, and x /= x leaves 1/1 for every *)
(* finite non-zero x.                                                      *)

BinaryResult(name, x, y) ==
    IF name = "+=" THEN Val(OpAdd(x, y))
    ELSE IF name = "-=" THEN Val(OpSub(x, y))
    ELSE IF name = "*=" THEN Val(OpMul(x, y))
    ELSE Val(OpDiv(x, y))

C9_SelfAssignAgrees ==
    (pc = "run" /\ op \in AssignOps /\ self) =>
        /\ f = BinaryResult(op, f1, f1)
        /\ (op = "/=" /\ isFinite(f1) /\ f1.num # 0) => f = [num |-> 1, den |-> 1]

---------------------------------------------------------------------------
(* C10 - a non-finite receiver stays non-finite: no operation makes a zero *)
(* denominator non-zero, and not-a-number (0, 0) stays (0, 0).             *)

C10_Absorbing ==
    [][ /\ (f.den = 0 => f'.den = 0)
        /\ (isNan(f) => isNan(f')) ]_vars

\* an infinite receiver combined with a finite non-zero operand
C10_Witness ==
    /\ pc = "run" /\ op \in AssignOps /\ ~self
    /\ isInf(f1) /\ isFinite(f2) /\ f2.num # 0 /\ f2.den > 1
    /\ f.den = 0

---------------------------------------------------------------------------
(* C8 - Test 1 of the driver: Fraction(100,150) + Fraction(2,5). *)

\* test01 has just executed f=f1+f2 on the operands of Test 1
C8_Added == pc = "test01" /\ test = 1 /\ line = 12 /\ op = "+"

\* C8 as claimed: the sum compares equal to Fraction(14,15).
C8_Original == C8_Added => OpEq(f, Val(Fraction2(14, 15)))

\* C8 as amended: the sum compares equal to Fraction(16,15).
C8_Sum == C8_Added => OpEq(f, Val(Fraction2(16, 15)))

\* the operands are the ones main() built for Test 1
C8_Witness ==
    /\ C8_Added
    /\ f1 = Val(Fraction2(100, 150)) /\ f2 = Val(Fraction2(2, 5))
    /\ f1 = [num |-> 2, den |-> 3]

====
